---- MODULE Spec2Model ----
(***************************************************************************)
(* Model of the cdk8s-shanoir chart builder: the ShanoirNGChart            *)
(* constructor (src/src/shanoir-ng-charts.ts) run on one configuration     *)
(* object, with the defaults of src/src/shanoir-ng-props.ts.               *)
(*                                                                         *)
(* A JavaScript value is a record [t |-> <type>, v |-> <payload>]; an      *)
(* object's payload is a function from its own keys to values, so that a   *)
(* key that is absent and a key that is present with the value undefined   *)
(* are different, exactly as the object spread of the constructor sees     *)
(* them.                                                                   *)
(***************************************************************************)
EXTENDS Integers, Sequences, FiniteSets, TLC

VARIABLES
  pc,          \* position in the constructor; "done" on return, "aborted" on a throw
  cfg,         \* the `props` argument as passed by the caller (never changes)
  props,       \* the local `props`: the argument, then the merged configuration
  thisProps,   \* this.props (undefined until assigned at line 77)
  useInternal, \* the three useInternal* constants of lines 61-63
  volumeClaims,\* this.volumeClaims: the set of keys (undefined until line 80)
  volumes,     \* this.volumes: the set of keys (undefined until line 83)
  env,         \* smtpEnvVariables, vipEnvVariables, keycloakCredentialsEnvVariables, dcm4cheeDb*
  resources,   \* the constructs added to the chart, in creation order
  warnings,    \* the warnings written by checkResourceMap
  error        \* what was thrown, "" while nothing was

vars == <<pc, cfg, props, thisProps, useInternal, volumeClaims, volumes, env,
          resources, warnings, error>>

----------------------------------------------------------------------------
(* JavaScript values *)

Undefined == [t |-> "undefined"]
Str(s) == [t |-> "string", v |-> s]
Num(n) == [t |-> "number", v |-> n]
Bool(b) == [t |-> "boolean", v |-> b]
Arr(s) == [t |-> "array", v |-> s]
Obj(f) == [t |-> "object", v |-> f]
EmptyObj == Obj([k \in {} |-> Undefined])

\* x == undefined
IsUndefined(x) == x.t = "undefined"

\* Object.keys(o)
Keys(o) == IF o.t = "object" THEN DOMAIN o.v ELSE {}

\* o[k] / o.k on an object (undefined for a key it does not own)
Get(o, k) == IF k \in Keys(o) THEN o.v[k] ELSE Undefined

\* o?.k
OptGet(o, k) == IF IsUndefined(o) THEN Undefined ELSE Get(o, k)

\* {...a, ...b}: own keys of both, b's entry wins whatever its value is;
\* spreading undefined adds nothing
Spread(a, b) ==
  Obj([k \in Keys(a) \cup Keys(b) |-> IF k \in Keys(b) THEN b.v[k] ELSE a.v[k]])

\* the object o without its key k (used only to build inputs)
Without(o, k) == Obj([j \in Keys(o) \ {k} |-> o.v[j]])

\* x ?? d
Coalesce(x, d) == IF IsUndefined(x) THEN d ELSE x

\* truthiness of the values the constructor tests
Truthy(x) ==
  CASE x.t = "undefined" -> FALSE
    [] x.t = "boolean" -> x.v
    [] x.t = "string" -> x.v # ""
    [] x.t = "number" -> x.v # 0
    [] OTHER -> TRUE

\* Number.prototype.toString / Boolean.prototype.toString on the values in use
NumToString(n) ==
  CASE n = 25 -> "25" [] n = 465 -> "465" [] n = 587 -> "587" [] OTHER -> "0"
BoolToString(b) == IF b THEN "true" ELSE "false"

\* a value inside a template literal
Template(x) ==
  CASE x.t = "string" -> x.v
    [] x.t = "number" -> NumToString(x.v)
    [] x.t = "boolean" -> BoolToString(x.v)
    [] x.t = "undefined" -> "undefined"
    [] OTHER -> "[object Object]"

RECURSIVE JoinFrom(_, _, _)
JoinFrom(s, i, sep) ==
  IF i > Len(s) THEN ""
  ELSE IF i = Len(s) THEN Template(s[i])
  ELSE Template(s[i]) \o sep \o JoinFrom(s, i + 1, sep)
\* Array.prototype.join
Join(a, sep) == JoinFrom(a.v, 1, sep)

Range(s) == {s[i] : i \in DOMAIN s}

----------------------------------------------------------------------------
(* src/src/shanoir-ng-props.ts *)

shanoirSmtpDefaults ==
  Obj([port |-> Num(25), auth |-> Undefined, starttls |-> Str("disabled")])

shanoirVipDefaults ==
  Obj([url |-> Str("https://vip.creatis.insa-lyon.fr"),
       clientSecret |-> Str("SECRET"),
       serviceEmail |-> Str("")])

shanoirVolumes ==
  {"datasets-data", "dcm4chee-arc-storage-data", "extra-data", "studies-data",
   "database-data", "dcm4chee-database-data", "keycloak-database-data",
   "logs", "keycloak-logs",
   "dcm4chee-arc-wildfly-data", "dcm4chee-ldap-data", "dcm4chee-sldap-data",
   "rabbitmq-data", "solr-data", "tmp"}

shanoirMysqlDatabases ==
  {"datasets", "import", "keycloak", "migrations", "mysql", "preclinical",
   "studies", "sys", "users"}

shanoirPostgresqlDatabases == {"dcm4chee"}

DatabaseProps(host, db, username, password) ==
  Obj([host |-> Str(host), db |-> Str(db), username |-> Str(username),
       password |-> Str(password)])

defaultMysqlHost == "database"

defaultMysqlDatabases ==
  Obj([db \in shanoirMysqlDatabases |-> DatabaseProps(defaultMysqlHost, db, db, db)])

defaultPostgresqlHost == "dcm4chee-database"

\* the postgresql default pointing at the mysql service
defaultPostgresqlDatabasesMysqlHost ==
  Obj([db \in {"dcm4chee"} |-> DatabaseProps(defaultMysqlHost, "pacsdb", "pacs", "pacs")])

defaultPostgresqlDatabases ==
  Obj([db \in {"dcm4chee"} |-> DatabaseProps(defaultPostgresqlHost, "pacsdb", "pacs", "pacs")])

\* the defaults without the two database maps
shanoirNGDefaultsNoDatabases ==
  Obj([version |-> Str("NG_v2.9.2"),
       instanceName |-> Str(""),
       instanceColor |-> Str(""),
       dockerRepository |-> Str("ghcr.io/fli-iam/shanoir-ng"),
       allowedAdminIps |-> Arr(<<>>),
       smtp |-> shanoirSmtpDefaults,
       vip |-> shanoirVipDefaults,
       createNamespace |-> Bool(TRUE)])

shanoirNGDefaults ==
  Obj([version |-> Str("NG_v2.9.2"),
       instanceName |-> Str(""),
       instanceColor |-> Str(""),
       dockerRepository |-> Str("ghcr.io/fli-iam/shanoir-ng"),
       allowedAdminIps |-> Arr(<<>>),
       smtp |-> shanoirSmtpDefaults,
       vip |-> shanoirVipDefaults,
       createNamespace |-> Bool(TRUE),
       mysqlDatabases |-> defaultMysqlDatabases,
       postgresqlDatabases |-> defaultPostgresqlDatabases])

----------------------------------------------------------------------------
(* checkResourceMap, src/src/shanoir-ng-charts.ts:19-33 *)

\* the keys of `map` that are not expected (line 24)
UnknownKeys(map, expect) == {x \in Keys(map) : x \notin expect}

\* the expected keys that `map` lacks (line 28)
MissingKeys(map, expect) == {x \in expect : x \notin Keys(map)}

\* checkResourceMap with `missing` filtered out of the wrong set (line 28)
checkResourceMapWrongSet(desc, map, expect) ==
  IF ~IsUndefined(map)
  THEN [warns |-> UnknownKeys(map, expect) # {},
        throws |-> UnknownKeys(map, expect) # {}]
  ELSE [warns |-> FALSE, throws |-> FALSE]

\* the outcome of one call: whether it warns and whether it throws
checkResourceMap(desc, map, expect) ==
  IF ~IsUndefined(map)
  THEN [warns |-> UnknownKeys(map, expect) # {},
        throws |-> MissingKeys(map, expect) # {}]
  ELSE [warns |-> FALSE, throws |-> FALSE]

----------------------------------------------------------------------------
(* new URL(...) of whatwg-url, on the URL strings the configurations use *)

UrlSchemes == {"http", "https"}
UrlHosts == {"x.test", "y.test", "vip.test", "vip.creatis.insa-lyon.fr"}
UrlPorts == {"", "80", "443", "8443"}
UrlPaths == {"", "/", "/app"}

\* the written parts of a URL string: scheme://host[:port][path]
UrlSyntax == [scheme : UrlSchemes, host : UrlHosts, port : UrlPorts, path : UrlPaths]

\* the URL string with these written parts
Href(p) ==
  p.scheme \o "://" \o p.host \o (IF p.port = "" THEN "" ELSE ":" \o p.port) \o p.path

\* the default port of a special scheme
DefaultPort(scheme) == IF scheme = "https" THEN "443" ELSE "80"

\* the strings that are URLs, and the written parts of each
UrlStrings == {Href(p) : p \in UrlSyntax}
UrlTable == [s \in UrlStrings |-> CHOOSE p \in UrlSyntax : Href(p) = s]

\* whether new URL(x) succeeds (it throws a TypeError otherwise)
UrlParses(x) == x.t = "string" /\ x.v \in UrlStrings

\* the written parts of the string x.v
Written(x) == UrlTable[x.v]

\* new URL(x): the port is dropped when it is the scheme's default port, and
\* the empty path of a special scheme becomes "/"
URL(x) ==
  LET p == Written(x)
      port == IF p.port = DefaultPort(p.scheme) THEN "" ELSE p.port
  IN [protocol |-> p.scheme \o ":",
      hostname |-> p.host,
      port |-> port,
      host |-> IF port = "" THEN p.host ELSE p.host \o ":" \o port,
      pathname |-> IF p.path = "" THEN "/" ELSE p.path]

\* the replace left out: the protocol as it is
KeepTrailingColon(s) == s

\* s.replace(/:$/, "")
StripTrailingColon(s) ==
  IF \E t \in UrlSchemes : t \o ":" = s
  THEN CHOOSE t \in UrlSchemes : t \o ":" = s
  ELSE s

\* the two assertions made on every parsed URL (lines 295-296, 298-299, 349-350)
UrlAccepted(x) == UrlParses(x) /\ URL(x).port = "" /\ URL(x).pathname = "/"

----------------------------------------------------------------------------
(* The configurations the constructor is run on *)

\* how many expected keys a supplied resource map may lack
MaxMissing == 1
\* how many unexpected keys a supplied resource map may carry
MaxExtra == 1
\* how many optional fields the caller writes in one configuration
MaxSupplied == 2

ChartId == "dummy"

With(o, k, x) == Spread(o, Obj([j \in {k} |-> x]))

\* a field of the argument: not written at all, or written with a value
Absent == [kind |-> "absent"]
Written1(x) == [kind |-> "written", value |-> x]
Put(o, k, slot) == IF slot.kind = "absent" THEN Without(o, k) ELSE With(o, k, slot.value)

\* the configuration of the README, with well-formed URLs
Baseline ==
  Obj([url |-> Str("https://x.test/"),
       viewerUrl |-> Str("https://y.test/"),
       adminName |-> Str("Dummy Admin"),
       adminEmail |-> Str("admin@x.test"),
       smtp |-> Obj([host |-> Str("smtp.x.test"), fromAddress |-> Str("no-reply@x.test")]),
       keycloakCredentials |-> Obj([username |-> Str("admin"), password |-> Str("qzflpuy;")]),
       volumeClaimProps |-> Obj([k \in shanoirVolumes |-> EmptyObj])])

ExtraKeys == {"extra-1", "extra-2"}

\* key sets lacking at most MaxMissing expected keys, with at most MaxExtra others
KeySets(expect) ==
  {(expect \ m) \cup e :
     m \in {m \in SUBSET expect : Cardinality(m) <= MaxMissing},
     e \in {e \in SUBSET ExtraKeys : Cardinality(e) <= MaxExtra}}

\* the three resource maps and the keys lines 56-58 expect in each
ResourceMaps == {"volumeClaimProps", "mysqlDatabases", "postgresqlDatabases"}

ExpectedKeys(k) ==
  CASE k = "volumeClaimProps" -> shanoirVolumes
    [] k = "mysqlDatabases" -> shanoirMysqlDatabases
    [] k = "postgresqlDatabases" -> shanoirPostgresqlDatabases

\* the entry a caller gives under a key of a resource map
MapEntry(k, key) ==
  CASE k = "volumeClaimProps" -> EmptyObj
    [] k = "mysqlDatabases" -> DatabaseProps("mysql.ext.test", key, key, "pw")
    [] k = "postgresqlDatabases" -> DatabaseProps("pg.ext.test", "pacsdb", "pacs", "pw")

\* the shapes of the resource map k: not written, written as undefined, or a
\* map with one of the key sets
MapSlots(k) ==
  {Absent, Written1(Undefined)}
    \cup {Written1(Obj([key \in ks |-> MapEntry(k, key)])) : ks \in KeySets(ExpectedKeys(k))}

\* a resource map with every expected key, and the two ways of not giving one
FullMap(k) == Written1(Obj([key \in ExpectedKeys(k) |-> MapEntry(k, key)]))
Plain(k) == {Absent, FullMap(k)}

KeycloakUrlSlots == {Absent, Written1(Str("https://kc.ext.test/"))}

Configure4(a, b, c, d) ==
  Put(Put(Put(Put(Baseline, "volumeClaimProps", a), "mysqlDatabases", b),
          "postgresqlDatabases", c), "keycloakUrl", d)

\* configurations that differ in their resource maps and in keycloakUrl: one
\* map ranges over all its shapes, the others over absent and complete
ResourceMapConfigs ==
  {Configure4(a, b, c, d) :
     a \in MapSlots("volumeClaimProps"),
     b \in Plain("mysqlDatabases"),
     c \in Plain("postgresqlDatabases"),
     d \in KeycloakUrlSlots}
  \cup
  {Configure4(a, b, c, d) :
     a \in Plain("volumeClaimProps"),
     b \in MapSlots("mysqlDatabases"),
     c \in Plain("postgresqlDatabases"),
     d \in KeycloakUrlSlots}
  \cup
  {Configure4(a, b, c, d) :
     a \in Plain("volumeClaimProps"),
     b \in Plain("mysqlDatabases"),
     c \in MapSlots("postgresqlDatabases"),
     d \in KeycloakUrlSlots}

\* the optional fields: of the argument ("top"), of smtp and of vip
TopOptional ==
  {"version", "instanceName", "instanceColor", "dockerRepository", "allowedAdminIps",
   "createNamespace", "namespace", "vip"}
SmtpOptional == {"port", "auth", "starttls"}
VipFields == {"url", "clientSecret", "serviceEmail"}
OptionalFields ==
  ({"top"} \X TopOptional) \cup ({"smtp"} \X SmtpOptional) \cup ({"vip"} \X VipFields)

\* the value a caller writes in an optional field (never the default's)
CallerValue(f) ==
  CASE f = <<"top", "version">> -> Str("NG_v2.9.1")
    [] f = <<"top", "instanceName">> -> Str("demo")
    [] f = <<"top", "instanceColor">> -> Str("red")
    [] f = <<"top", "dockerRepository">> -> Str("registry.x.test/shanoir")
    [] f = <<"top", "allowedAdminIps">> -> Arr(<<Str("192.0.2.1"), Str("2001:db8:1::/64")>>)
    [] f = <<"top", "createNamespace">> -> Bool(FALSE)
    [] f = <<"top", "namespace">> -> Str("shanoir-ns")
    [] f = <<"top", "vip">> -> EmptyObj
    [] f = <<"smtp", "port">> -> Num(587)
    [] f = <<"smtp", "auth">> -> Obj([username |-> Str("smtp-user"), password |-> Str("smtp-pass")])
    [] f = <<"smtp", "starttls">> -> Str("required")
    [] f = <<"vip", "url">> -> Str("https://vip.test/")
    [] f = <<"vip", "clientSecret">> -> Str("s3cret")
    [] f = <<"vip", "serviceEmail">> -> Str("vip@x.test")

\* what the caller writes: for some optional fields, a value or undefined
Writings ==
  UNION {[fs -> {"value", "undefined"}] :
           fs \in {fs \in SUBSET OptionalFields :
                     /\ Cardinality(fs) <= MaxSupplied
                     /\ (<<"top", "vip">> \in fs => \A k \in VipFields : <<"vip", k>> \notin fs)}}

Chosen(w, group) == {f[2] : f \in {g \in DOMAIN w : g[1] = group}}
WrittenValue(w, f) == IF w[f] = "value" THEN CallerValue(f) ELSE Undefined
GroupObj(w, group) == Obj([k \in Chosen(w, group) |-> WrittenValue(w, <<group, k>>)])

\* the configuration with the writings w
Configure(w) ==
  LET top == GroupObj(w, "top")
      smtp == Spread(Get(Baseline, "smtp"), GroupObj(w, "smtp"))
      withVip == IF Chosen(w, "vip") = {} THEN top ELSE With(top, "vip", GroupObj(w, "vip"))
  IN With(Spread(Baseline, withVip), "smtp", smtp)

\* configurations that differ in the optional fields written
LayeringConfigs == {Configure(w) : w \in Writings}

UrlInputs(host) ==
  {Str(Href(p)) : p \in {q \in UrlSyntax : q.host = host}} \cup {Str(host)}

\* configurations that differ in their URLs
UrlConfigs ==
  {With(With(Baseline, "url", u), "viewerUrl", v) :
     u \in UrlInputs("x.test"), v \in UrlInputs("y.test")}
  \cup {With(Baseline, "vip", Obj([url |-> u])) : u \in UrlInputs("vip.test")}

Configs == ResourceMapConfigs \cup LayeringConfigs \cup UrlConfigs

----------------------------------------------------------------------------
(* The constructor, src/src/shanoir-ng-charts.ts:47-255 *)

NoEnv == [k \in {} |-> Undefined]

Init ==
  /\ cfg \in Configs
  /\ props = cfg
  /\ pc = "assertions"
  /\ thisProps = Undefined
  /\ useInternal = [keycloak |-> FALSE, mysql |-> FALSE, postgresql |-> FALSE]
  /\ volumeClaims = Undefined
  /\ volumes = Undefined
  /\ env = NoEnv
  /\ resources = <<>>
  /\ warnings = {}
  /\ error = ""

\* a throw leaves the constructor; what was built so far stays as it is
Throw(what) ==
  /\ pc' = "aborted"
  /\ error' = what

Goto(next) ==
  /\ pc' = next
  /\ error' = error

\* an array of constructs for the members of a set (the order inside one
\* Object.entries batch is the caller's insertion order; one order stands for it)
RECURSIVE SetToSeq(_)
SetToSeq(S) ==
  IF S = {} THEN <<>>
  ELSE LET x == CHOOSE x \in S : TRUE IN <<x>> \o SetToSeq(S \ {x})

Construct(kind, id, spec) == [kind |-> kind, id |-> id, spec |-> spec]

\* EnvValue.fromValue / fromSecretValue / fromConfigMap
FromValue(x) == [from |-> "value", v |-> x]
FromSecretValue(key) == [from |-> "secret", v |-> Str(key)]
FromConfigMap(key) == [from |-> "configMap", v |-> Str(key)]

\* {...a, ...b} on two tables of environment variables
EnvSpread(a, b) == b @@ a

\* the assertions without the one on keycloakUrl
SupportedConfigurationNoKeycloak(p) ==
  /\ IsUndefined(Get(p, "mysqlDatabases"))
  /\ IsUndefined(Get(p, "postgresqlDatabases"))

\* lines 51-53: the three assertions
SupportedConfiguration(p) ==
  /\ IsUndefined(Get(p, "mysqlDatabases"))
  /\ IsUndefined(Get(p, "postgresqlDatabases"))
  /\ IsUndefined(Get(p, "keycloakUrl"))

Assertions ==
  /\ pc = "assertions"
  /\ IF SupportedConfiguration(props)
     THEN Goto("checkResourceMaps")
     ELSE Throw("AssertionError: not yet supported")
  /\ UNCHANGED <<cfg, props, thisProps, useInternal, volumeClaims, volumes, env,
                 resources, warnings>>

\* lines 56-58: the three calls, in order; a throw ends the constructor
CheckResourceMaps ==
  /\ pc = "checkResourceMaps"
  /\ LET v == checkResourceMap("volume claim", Get(props, "volumeClaimProps"), shanoirVolumes)
         m == checkResourceMap("mysql database", Get(props, "mysqlDatabases"),
                               shanoirMysqlDatabases)
         p == checkResourceMap("postgresql database", Get(props, "postgresqlDatabases"),
                               shanoirPostgresqlDatabases)
     IN /\ warnings' =
             warnings
               \cup (IF v.warns THEN {"volume claim"} ELSE {})
               \cup (IF ~v.throws /\ m.warns THEN {"mysql database"} ELSE {})
               \cup (IF ~v.throws /\ ~m.throws /\ p.warns THEN {"postgresql database"} ELSE {})
        /\ IF v.throws THEN Throw("error: missing volume claim")
           ELSE IF m.throws THEN Throw("error: missing mysql database")
           ELSE IF p.throws THEN Throw("error: missing postgresql database")
           ELSE Goto("applyDefaults")
  /\ UNCHANGED <<cfg, props, thisProps, useInternal, volumeClaims, volumes, env, resources>>

\* the merge with the defaults spread after the caller's props
applyDefaultsReversed(id, p) ==
  Spread(Spread(Spread(Obj([namespace |-> Str(id)]), p), shanoirNGDefaults),
         Obj([smtp |-> Spread(shanoirSmtpDefaults, Get(p, "smtp")),
              vip |-> Spread(shanoirVipDefaults, Get(p, "vip"))]))

\* the merge without the nested merges of smtp and vip
applyDefaultsShallow(id, p) ==
  Spread(Spread(Obj([namespace |-> Str(id)]), shanoirNGDefaults), p)

\* lines 68-73: the merged configuration
applyDefaults(id, p) ==
  Spread(Spread(Spread(Obj([namespace |-> Str(id)]), shanoirNGDefaults), p),
         Obj([smtp |-> Spread(shanoirSmtpDefaults, Get(p, "smtp")),
              vip |-> Spread(shanoirVipDefaults, Get(p, "vip"))]))

\* lines 61-73
ApplyDefaults ==
  /\ pc = "applyDefaults"
  /\ useInternal' = [keycloak |-> IsUndefined(Get(props, "keycloakUrl")),
                     mysql |-> IsUndefined(Get(props, "mysqlDatabases")),
                     postgresql |-> IsUndefined(Get(props, "postgresqlDatabases"))]
  /\ props' = applyDefaults(ChartId, props)
  /\ Goto("super")
  /\ UNCHANGED <<cfg, thisProps, volumeClaims, volumes, env, resources, warnings>>

\* lines 76-77: the Chart is constructed and this.props assigned
Super ==
  /\ pc = "super"
  /\ thisProps' = props
  /\ Goto("volumeClaims")
  /\ UNCHANGED <<cfg, props, useInternal, volumeClaims, volumes, env, resources, warnings>>

\* lines 80-81: one PersistentVolumeClaim per entry of this.props.volumeClaimProps
CreateVolumeClaims ==
  /\ pc = "volumeClaims"
  /\ LET claimProps == Get(thisProps, "volumeClaimProps")
     IN IF IsUndefined(claimProps)
        THEN /\ Throw("TypeError: Object.entries(undefined)")
             /\ UNCHANGED <<volumeClaims, resources>>
        ELSE /\ volumeClaims' = Obj([name \in Keys(claimProps) |-> Str(name \o "-pvc")])
             /\ LET names == SetToSeq(Keys(claimProps))
                IN resources' = resources \o
                     [i \in DOMAIN names |->
                        Construct("PersistentVolumeClaim", names[i] \o "-pvc",
                                  [name |-> names[i]])]
             /\ Goto("volumes")
  /\ UNCHANGED <<cfg, props, thisProps, useInternal, volumes, env, warnings>>

\* lines 83-84: one Volume per volume claim
CreateVolumes ==
  /\ pc = "volumes"
  /\ volumes' = Obj([name \in Keys(volumeClaims) |-> Str(name \o "-rv")])
  /\ LET names == SetToSeq(Keys(volumeClaims))
     IN resources' = resources \o
          [i \in DOMAIN names |->
             Construct("Volume", names[i] \o "-rv",
                       [name |-> names[i], claim |-> volumeClaims.v[names[i]]])]
  /\ Goto("commonConfigMap")
  /\ UNCHANGED <<cfg, props, thisProps, useInternal, volumeClaims, env, warnings>>

\* lines 302-328: the data of the common config map
commonConfigMapData(p) ==
  LET url == URL(Get(p, "url"))
      viewerUrl == URL(Get(p, "viewerUrl"))
  IN [SHANOIR_PREFIX |-> Str(""),
      SHANOIR_URL_SCHEME |-> Str(StripTrailingColon(url.protocol)),
      SHANOIR_URL_HOST |-> Str(url.host),
      SHANOIR_VIEWER_OHIF_URL_SCHEME |-> Str(StripTrailingColon(viewerUrl.protocol)),
      SHANOIR_VIEWER_OHIF_URL_HOST |-> Str(viewerUrl.host),
      SHANOIR_ADMIN_EMAIL |-> Get(p, "adminEmail"),
      SHANOIR_ADMIN_NAME |-> Get(p, "adminName"),
      SHANOIR_INSTANCE_COLOR |-> Get(p, "instanceColor"),
      SHANOIR_INSTANCE_NAME |-> Get(p, "instanceName"),
      SHANOIR_KEYCLOAK_ADAPTER_MODE |-> Str("check-sso"),
      SHANOIR_X_FORWARDED |-> Str("trust"),
      SHANOIR_CERTIFICATE |-> Str("manual"),
      SHANOIR_CERTIFICATE_PEM_CRT |-> Str("none"),
      SHANOIR_CERTIFICATE_PEM_KEY |-> Str("none"),
      SHANOIR_MIGRATION |-> Str("never")]

\* what a URL is rejected with: the parser's TypeError or a failed assertion
UrlError(x) ==
  IF ~UrlParses(x) THEN "TypeError: Invalid URL"
  ELSE IF URL(x).port # "" THEN "AssertionError: url.port"
  ELSE "AssertionError: url.pathname"

\* createCommonConfigMap, lines 292-329
CreateCommonConfigMap ==
  /\ pc = "commonConfigMap"
  /\ LET url == Get(thisProps, "url")
         viewerUrl == Get(thisProps, "viewerUrl")
     IN IF ~UrlAccepted(url)
        THEN Throw(UrlError(url)) /\ UNCHANGED resources
        ELSE IF ~UrlAccepted(viewerUrl)
        THEN Throw(UrlError(viewerUrl)) /\ UNCHANGED resources
        ELSE /\ resources' = Append(resources,
                  Construct("ConfigMap", "common-cm", commonConfigMapData(thisProps)))
             /\ Goto("secret")
  /\ UNCHANGED <<cfg, props, thisProps, useInternal, volumeClaims, volumes, env, warnings>>

\* lines 278-288: the entries of the secret
\* (a later key of the literal replaces an earlier one of the same name)
secretStringData(p) ==
  LET mysql == Get(p, "mysqlDatabases")
      postgresql == Get(p, "postgresqlDatabases")
      accounts == [name \in Keys(mysql) \cup Keys(postgresql) |->
                     IF name \in Keys(postgresql)
                     THEN Get(postgresql.v[name], "password")
                     ELSE Get(mysql.v[name], "password")]
      fixed == [k \in {"keycloak-admin", "vip-client-secret", "smtp"} |->
                  CASE k = "keycloak-admin" -> Get(Get(p, "keycloakCredentials"), "password")
                    [] k = "vip-client-secret" -> Get(Get(p, "vip"), "clientSecret")
                    [] k = "smtp" ->
                         Coalesce(OptGet(Get(Get(p, "smtp"), "auth"), "password"), Str(""))]
  IN fixed @@ accounts

\* the secret left for later: the constructor goes on without creating it
CreateSecretDeferred ==
  /\ pc = "secret"
  /\ Goto("smtpEnvVariables")
  /\ UNCHANGED <<cfg, props, thisProps, useInternal, volumeClaims, volumes, env, resources,
                 warnings>>

\* createSecret, lines 276-289
CreateSecret ==
  /\ pc = "secret"
  /\ IF \/ IsUndefined(Get(thisProps, "mysqlDatabases"))
        \/ IsUndefined(Get(thisProps, "postgresqlDatabases"))
     THEN Throw("TypeError: Object.entries(undefined)") /\ UNCHANGED resources
     ELSE IF IsUndefined(Get(thisProps, "keycloakCredentials"))
     THEN Throw("TypeError: keycloakCredentials.password") /\ UNCHANGED resources
     ELSE /\ resources' = Append(resources,
               Construct("Secret", "sec", secretStringData(thisProps)))
          /\ Goto("smtpEnvVariables")
  /\ UNCHANGED <<cfg, props, thisProps, useInternal, volumeClaims, volumes, env, warnings>>

\* lines 334-343
smtpEnvVariables(p) ==
  LET smtp == Get(p, "smtp")
  IN [SHANOIR_SMTP_HOST |-> FromValue(Get(smtp, "host")),
      SHANOIR_SMTP_PORT |-> FromValue(Str(NumToString(Get(smtp, "port").v))),
      SHANOIR_STMP_AUTH |-> FromValue(Str(BoolToString(~IsUndefined(Get(smtp, "auth"))))),
      SHANOIR_SMTP_USERNAME |->
        FromValue(Coalesce(OptGet(Get(smtp, "auth"), "username"), Str(""))),
      SHANOIR_SMTP_STARTTLS_ENABLE |->
        FromValue(Str(BoolToString(Get(smtp, "starttls") # Str("disabled")))),
      SHANOIR_SMTP_STARTTLS_REQUIRED |->
        FromValue(Str(BoolToString(Get(smtp, "starttls") = Str("required")))),
      SHANOIR_SMTP_FROM |-> FromValue(Get(smtp, "fromAddress")),
      SHANOIR_SMTP_PASSWORD |-> FromSecretValue("smtp")]

\* createSmtpEnvVariables, lines 332-344
CreateSmtpEnvVariables ==
  /\ pc = "smtpEnvVariables"
  /\ IF IsUndefined(Get(Get(thisProps, "smtp"), "port"))
     THEN Throw("TypeError: smtp.port.toString") /\ UNCHANGED env
     ELSE /\ env' = ("smtp" :> smtpEnvVariables(thisProps)) @@ env
          /\ Goto("vipEnvVariables")
  /\ UNCHANGED <<cfg, props, thisProps, useInternal, volumeClaims, volumes, resources,
                 warnings>>

\* lines 352-355
vipEnvVariables(p) ==
  LET url == URL(Get(Get(p, "vip"), "url"))
  IN [VIP_URL_SCHEME |-> FromValue(Str(StripTrailingColon(url.protocol))),
      VIP_URL_HOST |-> FromValue(Str(url.host))]

\* createVipEnvVariables, lines 346-357
CreateVipEnvVariables ==
  /\ pc = "vipEnvVariables"
  /\ LET url == Get(Get(thisProps, "vip"), "url")
     IN IF ~UrlAccepted(url)
        THEN Throw(UrlError(url)) /\ UNCHANGED env
        ELSE /\ env' = ("vip" :> vipEnvVariables(thisProps)) @@ env
             /\ Goto("keycloakCredentialsEnvVariables")
  /\ UNCHANGED <<cfg, props, thisProps, useInternal, volumeClaims, volumes, resources,
                 warnings>>

\* lines 361-364
keycloakCredentialsEnvVariables(p) ==
  [SHANOIR_KEYCLOAK_USER |-> FromValue(Get(Get(p, "keycloakCredentials"), "username")),
   SHANOIR_KEYCLOAK_PASSWORD |-> FromSecretValue("keycloak-admin")]

\* createKeycloakCredentialsEnvVariables, lines 359-365
CreateKeycloakCredentialsEnvVariables ==
  /\ pc = "keycloakCredentialsEnvVariables"
  /\ env' = ("keycloak" :> keycloakCredentialsEnvVariables(thisProps)) @@ env
  /\ Goto("namespace")
  /\ UNCHANGED <<cfg, props, thisProps, useInternal, volumeClaims, volumes, resources,
                 warnings>>

\* lines 97-99
CreateNamespace ==
  /\ pc = "namespace"
  /\ resources' =
       IF Truthy(Get(props, "createNamespace"))
       THEN Append(resources, Construct("Namespace", "ns", [name |-> Get(props, "namespace")]))
       ELSE resources
  /\ Goto("database")
  /\ UNCHANGED <<cfg, props, thisProps, useInternal, volumeClaims, volumes, env, warnings>>

----------------------------------------------------------------------------
(* The deployments and services, lines 103-254 and 375-420 *)

\* shanoirImage, lines 258-261
shanoirImage(service) ==
  Template(Get(thisProps, "dockerRepository")) \o "/" \o service \o ":"
    \o Template(Get(thisProps, "version"))

\* one entry of volumeMounts: this.volumes[name] is undefined for a name it lacks
Mount(path, name) == [path |-> path, volume |-> Get(volumes, name)]

ContainerProps(image, envFrom, envVariables, volumeMounts) ==
  [image |-> image, envFrom |-> envFrom, envVariables |-> envVariables,
   volumeMounts |-> volumeMounts]

\* createService, lines 375-397: a deployment, and a service when ports are given
createService(name, ports, container) ==
  LET deploy == Construct("Deployment", name \o "-deploy", container)
  IN IF IsUndefined(ports)
     THEN <<deploy>>
     ELSE <<deploy,
            Construct("Service", name \o "-svc",
                      [name |-> name, ports |-> ports.v, selector |-> deploy.id])>>

\* the microservice with the logs volume looked up under a misspelt name
createShanoirMicroserviceLog(name, ports, envVariables, extraVolumeMounts) ==
  createService(name, ports,
    ContainerProps(shanoirImage(name), TRUE, envVariables,
                   <<Mount("/var/log/shanoir-ng-logs", "log")>> \o extraVolumeMounts))

\* createShanoirMicroservice, lines 406-420
createShanoirMicroservice(name, ports, envVariables, extraVolumeMounts) ==
  createService(name, ports,
    ContainerProps(shanoirImage(name), TRUE, envVariables,
                   <<Mount("/var/log/shanoir-ng-logs", "logs")>> \o extraVolumeMounts))

\* one call of the fixed sequence: `created` is added to the chart
Step(at, next, created) ==
  /\ pc = at
  /\ resources' = resources \o created
  /\ Goto(next)
  /\ UNCHANGED <<cfg, props, thisProps, useInternal, volumeClaims, volumes, env, warnings>>

\* lines 103-121
CreateDatabase ==
  Step("database", "rabbitmq",
    IF useInternal.mysql
    THEN createService("database", Arr(<<3306>>),
           ContainerProps(shanoirImage("database"), FALSE,
             [MYSQL_ROOT_PASSWORD |-> FromValue(Str("password")),
              SHANOIR_MIGRATION |-> FromConfigMap("never")],
             <<Mount("/var/lib/mysql", "database-data")>>))
    ELSE <<>>)

\* lines 123-128
CreateRabbitmq ==
  Step("rabbitmq", "solr",
    createService("rabbitmq", Arr(<<5672>>),
      ContainerProps("rabbitmq:3.10.7", FALSE, NoEnv,
        <<Mount("/var/lib/rabbitmq/mnesia/rabbitmq", "rabbitmq-data")>>)))

\* lines 130-136
CreateSolr ==
  Step("solr", "keycloak",
    createService("solr", Arr(<<8983>>),
      ContainerProps(shanoirImage("solr"), FALSE,
        [SOLR_LOG_LEVEL |-> FromValue(Str("SEVERE"))],
        <<Mount("/var/solr", "solr-data")>>)))

\* lines 138-149
CreateKeycloak ==
  /\ pc = "keycloak"
  /\ IF useInternal.keycloak /\ IsUndefined(Get(thisProps, "allowedAdminIps"))
     THEN Throw("TypeError: allowedAdminIps.join") /\ UNCHANGED resources
     ELSE /\ resources' = resources \o
               (IF useInternal.keycloak
                THEN createService("keycloak", Arr(<<8080>>),
                       ContainerProps(shanoirImage("keycloak"), TRUE,
                         EnvSpread(EnvSpread(env["keycloak"], env["smtp"]),
                           [SHANOIR_ALLOWED_ADMIN_IPS |->
                              FromValue(Str(Join(Get(thisProps, "allowedAdminIps"), ",")))]),
                         <<>>))
                ELSE <<>>)
          /\ Goto("dcm4cheeDb")
  /\ UNCHANGED <<cfg, props, thisProps, useInternal, volumeClaims, volumes, env, warnings>>

\* lines 154-158
dcm4cheeDbVariables(dcm4cheeDb) ==
  [POSTGRES_DB |-> FromValue(Get(dcm4cheeDb, "db")),
   POSTGRES_USER |-> FromValue(Get(dcm4cheeDb, "username")),
   POSTGRES_PASSWORD |-> FromSecretValue("dcm4chee")]

\* lines 153-158
Dcm4cheeDb ==
  /\ pc = "dcm4cheeDb"
  /\ LET dcm4cheeDb == Get(Get(thisProps, "postgresqlDatabases"), "dcm4chee")
     IN IF IsUndefined(dcm4cheeDb)
        THEN Throw("TypeError: dcm4cheeDb.db") /\ UNCHANGED env
        ELSE /\ env' = ("dcm4cheeDb" :> dcm4cheeDbVariables(dcm4cheeDb)) @@ env
             /\ Goto("dcm4chee-ldap")
  /\ UNCHANGED <<cfg, props, thisProps, useInternal, volumeClaims, volumes, resources,
                 warnings>>

\* lines 160-169
CreateDcm4cheeLdap ==
  Step("dcm4chee-ldap", "dcm4chee-database",
    createService("dcm4chee-ldap", Arr(<<389>>),
      ContainerProps("dcm4che/slapd-dcm4chee:2.6.2-27.0", FALSE,
        [STORAGE_DIR |-> FromValue(Str("/storage/fs1"))],
        <<Mount("/var/lib/openldap/openldap-data", "dcm4chee-ldap-data"),
          Mount("/etc/openldap/slapd.d", "dcm4chee-sldap-data")>>)))

\* lines 171-179
CreateDcm4cheeDatabase ==
  Step("dcm4chee-database", "dcm4chee-arc",
    IF useInternal.postgresql
    THEN createService("dcm4chee-database", Arr(<<5432>>),
           ContainerProps("dcm4che/postgres-dcm4chee:14.4-27", FALSE, env["dcm4cheeDb"],
             <<Mount("/var/lib/postgresql/data", "dcm4chee-database-data")>>))
    ELSE <<>>)

\* lines 187-193
dcm4cheeArcEnvVariables(p) ==
  EnvSpread(env["dcm4cheeDb"],
    [LDAP_URL |-> FromValue(Str("ldap://dcm4chee-ldap:389")),
     POSTGRES_HOST |->
       FromValue(Get(Get(Get(p, "postgresqlDatabases"), "dcm4chee"), "host")),
     WILDFLY_CHOWN |-> FromValue(Str("/storage")),
     WILDFLY_WAIT_FOR |-> FromValue(Str("dcm4chee-ldap:389 dcm4chee-database:5432"))])

\* lines 181-193
CreateDcm4cheeArc ==
  Step("dcm4chee-arc", "users",
    createService("dcm4chee-arc", Arr(<<8080>>),
      ContainerProps("dcm4che/dcm4chee-arc-psql:5.27.0", FALSE,
        dcm4cheeArcEnvVariables(thisProps),
        <<Mount("/opt/wildfly/standalone", "dcm4chee-arc-wildfly-data"),
          Mount("/storage", "dcm4chee-arc-storage-data")>>)))

\* lines 197-203
CreateUsers ==
  Step("users", "studies",
    createShanoirMicroservice("users", Arr(<<9901>>),
      EnvSpread(EnvSpread(env["keycloak"], env["smtp"]),
        [VIP_SERVICE_EMAIL |-> FromValue(Get(Get(props, "vip"), "serviceEmail"))]),
      <<>>))

\* lines 205-212
CreateStudies ==
  Step("studies", "import",
    createShanoirMicroservice("studies", Arr(<<9902>>), NoEnv,
      <<Mount("/tmp", "tmp"),
        Mount("/var/studies-data", "studies-data"),
        Mount("/var/datasets-data", "datasets-data")>>))

\* lines 214-218
CreateImport ==
  Step("import", "datasets",
    createShanoirMicroservice("import", Arr(<<9903>>), NoEnv, <<Mount("/tmp", "tmp")>>))

\* lines 220-229
CreateDatasets ==
  Step("datasets", "preclinical",
    createShanoirMicroservice("datasets", Arr(<<9904>>),
      EnvSpread(env["vip"], [VIP_CLIENT_SECRET |-> FromSecretValue("vip-client-secret")]),
      <<Mount("/tmp", "tmp"), Mount("/var/datasets-data", "datasets-data")>>))

\* lines 231-236
CreatePreclinical ==
  Step("preclinical", "nifti-conversion",
    createShanoirMicroservice("preclinical", Arr(<<9905>>), NoEnv,
      <<Mount("/tmp", "tmp"), Mount("/var/extra-data", "extra-data")>>))

\* lines 238-243
CreateNiftiConversion ==
  Step("nifti-conversion", "nginx",
    createShanoirMicroservice("nifti-conversion", Undefined, NoEnv,
      <<Mount("/tmp", "tmp"), Mount("/var/datasets-data", "datasets-data")>>))

\* lines 247-254; the constructor returns
CreateNginx ==
  Step("nginx", "done",
    createService("nginx", Arr(<<80, 443>>),
      ContainerProps(shanoirImage("nginx"), TRUE, env["vip"],
        <<[path |-> "/var/log/nginx", volume |-> Get(volumes, "logs"),
           subPath |-> "nginx"]>>)))

Next ==
  \/ Assertions
  \/ CheckResourceMaps
  \/ ApplyDefaults
  \/ Super
  \/ CreateVolumeClaims
  \/ CreateVolumes
  \/ CreateCommonConfigMap
  \/ CreateSecret
  \/ CreateSmtpEnvVariables
  \/ CreateVipEnvVariables
  \/ CreateKeycloakCredentialsEnvVariables
  \/ CreateNamespace
  \/ CreateDatabase
  \/ CreateRabbitmq
  \/ CreateSolr
  \/ CreateKeycloak
  \/ Dcm4cheeDb
  \/ CreateDcm4cheeLdap
  \/ CreateDcm4cheeDatabase
  \/ CreateDcm4cheeArc
  \/ CreateUsers
  \/ CreateStudies
  \/ CreateImport
  \/ CreateDatasets
  \/ CreatePreclinical
  \/ CreateNiftiConversion
  \/ CreateNginx

Spec == Init /\ [][Next]_vars

----------------------------------------------------------------------------
(* Vocabulary of the properties, over the caller's configuration cfg *)

MissingDescription(k) ==
  CASE k = "volumeClaimProps" -> "error: missing volume claim"
    [] k = "mysqlDatabases" -> "error: missing mysql database"
    [] k = "postgresqlDatabases" -> "error: missing postgresql database"

\* the caller wrote the key (whatever the value)
WrittenKey(k) == k \in Keys(cfg)
\* the caller gave a map under the key
Supplied(k) == Get(cfg, k).t = "object"
Complete(k) == Supplied(k) /\ ExpectedKeys(k) \subseteq Keys(Get(cfg, k))
LacksKey(k) == Supplied(k) /\ ~(ExpectedKeys(k) \subseteq Keys(Get(cfg, k)))
HasUnexpected(k) == Supplied(k) /\ ~(Keys(Get(cfg, k)) \subseteq ExpectedKeys(k))

Aborted == pc = "aborted"
Done == pc = "done"

\* the conditions under which the constructor throws, on the configuration alone
ExternalRequested ==
  Supplied("mysqlDatabases") \/ Supplied("postgresqlDatabases")
    \/ ~IsUndefined(Get(cfg, "keycloakUrl"))
NoVolumeClaimProps == IsUndefined(Get(cfg, "volumeClaimProps"))
CallerVipUrl ==
  IF "url" \in Keys(Get(cfg, "vip")) THEN Get(cfg, "vip").v["url"]
  ELSE Str("https://vip.creatis.insa-lyon.fr")
WellFormed(x) ==
  /\ UrlParses(x)
  /\ Written(x).path \in {"", "/"}
  /\ \/ Written(x).port = ""
     \/ Written(x).scheme = "https" /\ Written(x).port = "443"
     \/ Written(x).scheme = "http" /\ Written(x).port = "80"
BadUrl ==
  ~WellFormed(Get(cfg, "url")) \/ ~WellFormed(Get(cfg, "viewerUrl")) \/ ~WellFormed(CallerVipUrl)
WrittenUndefined(o, k) == k \in Keys(o) /\ IsUndefined(o.v[k])
UndefinedWritten ==
  \/ WrittenUndefined(cfg, "mysqlDatabases")
  \/ WrittenUndefined(cfg, "postgresqlDatabases")
  \/ WrittenUndefined(cfg, "allowedAdminIps")
  \/ WrittenUndefined(Get(cfg, "smtp"), "port")

AbortCause ==
  \/ ExternalRequested
  \/ LacksKey("volumeClaimProps")
  \/ NoVolumeClaimProps
  \/ BadUrl
  \/ UndefinedWritten

\* the constructs of the chart
Has(kind, id) == \E r \in Range(resources) : r.kind = kind /\ r.id = id
The(kind, id) == CHOOSE r \in Range(resources) : r.kind = kind /\ r.id = id
Deployments == {r \in Range(resources) : r.kind = "Deployment"}
HasService(name, ports) ==
  \E r \in Range(resources) :
    /\ r.kind = "Service" /\ r.spec.name = name /\ r.spec.ports = ports
    /\ Has("Deployment", r.spec.selector)
HasBackend(name) ==
  \/ Has("Deployment", name \o "-deploy")
  \/ \E r \in Range(resources) : r.kind = "Service" /\ r.spec.name = name

----------------------------------------------------------------------------
(* C1 *)

----------------------------------------------------------------------------
(* C2 *)

\* C2, as claimed: when every supplied resource map has all its expected keys
\* (and the rest of the configuration is sound), unexpected keys warn and the
\* constructor does not abort.
C2_UnexpectedKeysDoNotAbort ==
  (/\ \E k \in ResourceMaps : HasUnexpected(k)
   /\ \A k \in ResourceMaps : Supplied(k) => Complete(k)
   /\ Supplied("volumeClaimProps")
   /\ IsUndefined(Get(cfg, "keycloakUrl"))
   /\ ~BadUrl /\ ~UndefinedWritten)
  => ~Aborted

----------------------------------------------------------------------------
(* C3 *)

\* C3, as claimed: leaving out any of the three resource maps (the rest of
\* the configuration being sound) never aborts.
C3_OmissionIsLegal ==
  (/\ \E k \in ResourceMaps : ~WrittenKey(k)
   /\ ~ExternalRequested /\ ~LacksKey("volumeClaimProps") /\ ~BadUrl /\ ~UndefinedWritten)
  => ~Aborted

\* C3, amended: leaving out mysqlDatabases or postgresqlDatabases is legal:
\* checkResourceMap does not throw for it, the merged configuration holds the
\* built-in default map, and the constructor aborts only for another cause.
\* Leaving out volumeClaimProps skips the validation too, but no default
\* exists for it: the merged configuration has none and the constructor
\* aborts when it creates the volume claims, before any resource exists.
C3_OmittedDatabasesUseDefaults ==
  /\ \A k \in {"mysqlDatabases", "postgresqlDatabases"} :
       ~WrittenKey(k) =>
         /\ error # MissingDescription(k)
         /\ ~IsUndefined(thisProps) =>
              /\ k = "mysqlDatabases" =>
                   /\ Keys(Get(thisProps, k)) = shanoirMysqlDatabases
                   /\ \A db \in shanoirMysqlDatabases :
                        Get(thisProps, k).v[db] = DatabaseProps("database", db, db, db)
              /\ k = "postgresqlDatabases" =>
                   /\ Keys(Get(thisProps, k)) = {"dcm4chee"}
                   /\ Get(thisProps, k).v["dcm4chee"] =
                        DatabaseProps("dcm4chee-database", "pacsdb", "pacs", "pacs")
         /\ ~AbortCause => ~Aborted
  /\ ~WrittenKey("volumeClaimProps") =>
       /\ error # MissingDescription("volumeClaimProps")
       /\ ~IsUndefined(thisProps) => IsUndefined(Get(thisProps, "volumeClaimProps"))
       /\ resources = <<>>
       /\ ~Done

\* a chart was built from a configuration with neither database map
C3_Witness ==
  /\ Done
  /\ ~WrittenKey("mysqlDatabases") /\ ~WrittenKey("postgresqlDatabases")
  /\ Get(thisProps, "mysqlDatabases").t = "object"

----------------------------------------------------------------------------
(* C4 *)

DatabaseHostVariables == {"POSTGRES_HOST", "MYSQL_HOST"}

----------------------------------------------------------------------------
(* C5 *)

\* C5, as claimed: with an external keycloak, mysql or postgresql given in
\* full (and the rest of the configuration sound) the constructor completes,
\* the chart has no deployment or service for that backend, and dcm4chee-arc
\* gets the supplied postgresql host.
C5_ExternalBackends ==
  (/\ ExternalRequested
   /\ \A k \in {"mysqlDatabases", "postgresqlDatabases"} : Supplied(k) => Complete(k)
   /\ Complete("volumeClaimProps")
   /\ ~BadUrl /\ ~UndefinedWritten)
  => /\ ~Aborted
     /\ Done =>
          /\ ~IsUndefined(Get(cfg, "keycloakUrl")) => ~HasBackend("keycloak")
          /\ Supplied("mysqlDatabases") => ~HasBackend("database")
          /\ Supplied("postgresqlDatabases") =>
               /\ ~HasBackend("dcm4chee-database")
               /\ The("Deployment", "dcm4chee-arc-deploy").spec.envVariables["POSTGRES_HOST"]
                    = FromValue(Get(Get(Get(cfg, "postgresqlDatabases"), "dcm4chee"), "host"))

----------------------------------------------------------------------------
(* C6 *)

----------------------------------------------------------------------------
(* C7 *)

Merged == ~IsUndefined(thisProps)
Nested == {"smtp", "vip"}

\* C7: in the merged configuration every top-level field the caller wrote has
\* the caller's value (for smtp and vip: every nested field the caller wrote
\* has the caller's value), and a field holds its built-in default, namespace
\* = chart id included, only where the caller wrote none.
C7_CallerTakesPrecedence ==
  Merged =>
    /\ \A k \in Keys(cfg) \ Nested : k \in Keys(thisProps) /\ thisProps.v[k] = cfg.v[k]
    /\ \A g \in Nested : \A f \in Keys(Get(cfg, g)) :
         Get(Get(thisProps, g), f) = Get(cfg, g).v[f]
    /\ \A k \in Keys(thisProps) \ Nested :
         thisProps.v[k] # Get(cfg, k) =>
           /\ k \notin Keys(cfg)
           /\ thisProps.v[k] =
                CASE k = "version" -> Str("NG_v2.9.2")
                  [] k = "instanceName" -> Str("")
                  [] k = "instanceColor" -> Str("")
                  [] k = "dockerRepository" -> Str("ghcr.io/fli-iam/shanoir-ng")
                  [] k = "allowedAdminIps" -> Arr(<<>>)
                  [] k = "createNamespace" -> Bool(TRUE)
                  [] k = "namespace" -> Str(ChartId)
                  [] k = "mysqlDatabases" -> defaultMysqlDatabases
                  [] k = "postgresqlDatabases" -> defaultPostgresqlDatabases
                  [] OTHER -> Undefined

\* the caller's version and namespace are kept, next to a default instanceName
C7_Witness ==
  /\ Merged
  /\ Get(cfg, "version") = Str("NG_v2.9.1")
  /\ Get(thisProps, "version") = Str("NG_v2.9.1")
  /\ Get(cfg, "namespace") = Str("shanoir-ns")
  /\ Get(thisProps, "namespace") = Str("shanoir-ns")
  /\ ~WrittenKey("instanceName")
  /\ Get(thisProps, "instanceName") = Str("")

----------------------------------------------------------------------------
(* C8 *)

----------------------------------------------------------------------------
(* C9 *)

\* C9, as claimed: once the defaults are applied, every key that has a
\* built-in default is defined in props, props.smtp (auth apart) and
\* props.vip, and no later step fails on reading an undefined one.
C9_FullyPopulated ==
  Merged =>
    /\ \A k \in {"version", "instanceName", "instanceColor", "dockerRepository",
                 "allowedAdminIps", "smtp", "vip", "createNamespace", "mysqlDatabases",
                 "postgresqlDatabases", "namespace"} :
         ~IsUndefined(Get(thisProps, k))
    /\ \A f \in {"port", "starttls"} : ~IsUndefined(Get(Get(thisProps, "smtp"), f))
    /\ \A f \in {"url", "clientSecret", "serviceEmail"} :
         ~IsUndefined(Get(Get(thisProps, "vip"), f))
    /\ error \notin {"TypeError: smtp.port.toString", "TypeError: allowedAdminIps.join"}

----------------------------------------------------------------------------
(* C10 *)

HasConfigMap == Has("ConfigMap", "common-cm")
ConfigMapData == The("ConfigMap", "common-cm").spec
\* the string is <scheme>://<host>/
PlainForm(x) == UrlParses(x) /\ Written(x).port = "" /\ Written(x).path = "/"
\* the string has a port or a path other than '/'
PortOrPath(x) == UrlParses(x) /\ (Written(x).port # "" \/ Written(x).path \notin {"", "/"})

\* C10, as claimed: url and viewerUrl of the form <scheme>://<host>/ give a
\* config map with their schemes (no colon) and hosts (no path); a url or
\* viewerUrl with an explicit port or a path other than '/' gives none.
C10_PlainUrlsOnly ==
  HasConfigMap =>
    /\ ~PortOrPath(Get(cfg, "url"))
    /\ ~PortOrPath(Get(cfg, "viewerUrl"))
    /\ (PlainForm(Get(cfg, "url")) /\ PlainForm(Get(cfg, "viewerUrl"))) =>
         /\ ConfigMapData.SHANOIR_URL_SCHEME = Str(Written(Get(cfg, "url")).scheme)
         /\ ConfigMapData.SHANOIR_URL_HOST = Str(Written(Get(cfg, "url")).host)

\* C10, amended: url and viewerUrl of the form <scheme>://<host>/ give a
\* config map (when the constructor gets as far as creating it) whose
\* SHANOIR_URL_SCHEME and SHANOIR_URL_HOST are the scheme (no colon) and the
\* host of url, and whose SHANOIR_VIEWER_OHIF_URL_SCHEME and _HOST are those
\* of viewerUrl, none with a port or a path; a url or viewerUrl that does not
\* parse, that has a path other than '/', or that has an explicit port other
\* than its scheme's default (80 for http, 443 for https) gives no config
\* map. An explicit default port is accepted and dropped.
C10_WellFormedUrlsOnly ==
  LET url == Get(cfg, "url")
      viewerUrl == Get(cfg, "viewerUrl")
      reached == ~IsUndefined(volumes) /\ pc # "commonConfigMap"
  IN /\ HasConfigMap =>
          /\ WellFormed(url) /\ WellFormed(viewerUrl)
          /\ ConfigMapData.SHANOIR_URL_SCHEME = Str(Written(url).scheme)
          /\ ConfigMapData.SHANOIR_URL_HOST = Str(Written(url).host)
          /\ ConfigMapData.SHANOIR_VIEWER_OHIF_URL_SCHEME = Str(Written(viewerUrl).scheme)
          /\ ConfigMapData.SHANOIR_VIEWER_OHIF_URL_HOST = Str(Written(viewerUrl).host)
     /\ (reached /\ PlainForm(url) /\ PlainForm(viewerUrl)) => HasConfigMap
     /\ (reached /\ ~HasConfigMap) => (Aborted /\ (~WellFormed(url) \/ ~WellFormed(viewerUrl)))

\* a config map made from a url that spells out the default port
C10_Witness ==
  /\ HasConfigMap
  /\ Get(cfg, "url") = Str("https://x.test:443/")
  /\ ConfigMapData.SHANOIR_URL_HOST = Str("x.test")
  /\ ConfigMapData.SHANOIR_URL_SCHEME = Str("https")

----------------------------------------------------------------------------
(* C11 *)

\* the fixed sequence of the deployments
ServiceOrder ==
  <<"database", "rabbitmq", "solr", "keycloak", "dcm4chee-ldap", "dcm4chee-database",
    "dcm4chee-arc", "users", "studies", "import", "datasets", "preclinical",
    "nifti-conversion", "nginx">>

\* the rank of a kind of shared resource, in the order they are to be created
SharedRank(kind) ==
  CASE kind = "PersistentVolumeClaim" -> 1
    [] kind = "Volume" -> 2
    [] kind = "ConfigMap" -> 3
    [] kind = "Secret" -> 4
    [] OTHER -> 5

Position(kind, id) == CHOOSE i \in DOMAIN resources : resources[i].kind = kind /\ resources[i].id = id

\* the place of a deployment in the fixed sequence (0 when it is not in it)
OrderIndex(id) ==
  IF \E n \in DOMAIN ServiceOrder : ServiceOrder[n] \o "-deploy" = id
  THEN CHOOSE n \in DOMAIN ServiceOrder : ServiceOrder[n] \o "-deploy" = id
  ELSE 0

\* C11: at every moment of every run, whatever the configuration: a resource
\* exists only after validation passed and the defaults were applied; the
\* shared resources come in the order volume claims, volumes, config map,
\* secret, all before any deployment or service; the deployments come in the
\* one fixed sequence (a disabled backend is left out, the others keep their
\* order), each service right after its deployment; and every deployment
\* comes after the config map, the secret and every volume it mounts.
C11_FixedOrder ==
  /\ resources # <<>> =>
       /\ Merged
       /\ pc \notin {"assertions", "checkResourceMaps", "applyDefaults", "super"}
       /\ \A k \in ResourceMaps : ~LacksKey(k)
  /\ \A i, j \in DOMAIN resources :
       i < j =>
         /\ SharedRank(resources[i].kind) <= SharedRank(resources[j].kind)
         /\ (resources[i].kind = "Deployment" /\ resources[j].kind = "Deployment") =>
              /\ OrderIndex(resources[i].id) > 0
              /\ OrderIndex(resources[i].id) < OrderIndex(resources[j].id)
  /\ \A i \in DOMAIN resources :
       /\ resources[i].kind = "Deployment" =>
            /\ \E j \in 1..(i - 1) : resources[j].kind = "ConfigMap"
            /\ \E j \in 1..(i - 1) : resources[j].kind = "Secret"
            /\ \A m \in Range(resources[i].spec.volumeMounts) :
                 /\ m.volume.t = "string"
                 /\ \E j \in 1..(i - 1) :
                      resources[j].kind = "Volume" /\ resources[j].id = m.volume.v
       /\ resources[i].kind = "Service" =>
            /\ i > 1
            /\ resources[i - 1].kind = "Deployment"
            /\ resources[i - 1].id = resources[i].spec.selector
  /\ Done =>
       \A n \in DOMAIN ServiceOrder :
         Has("Deployment", ServiceOrder[n] \o "-deploy")
           \/ (ServiceOrder[n] = "database" /\ ~useInternal.mysql)
           \/ (ServiceOrder[n] = "keycloak" /\ ~useInternal.keycloak)
           \/ (ServiceOrder[n] = "dcm4chee-database" /\ ~useInternal.postgresql)

\* a finished run: the fourteen deployments, the first after the secret
C11_Witness ==
  /\ Done
  /\ Cardinality(Deployments) = 14
  /\ Position("Secret", "sec") < Position("Deployment", "database-deploy")
  /\ Position("Deployment", "users-deploy") < Position("Deployment", "nginx-deploy")

----------------------------------------------------------------------------
(* C12 *)

Named(kind, name) == {i \in DOMAIN resources : resources[i].kind = kind /\ resources[i].spec.name = name}
Of(kind) == {i \in DOMAIN resources : resources[i].kind = kind}

\* C12: every mount of every deployment is a defined volume, whose name is
\* in shanoirVolumes and is a key of the supplied volumeClaimProps, and which
\* was made from the claim made for that key; and once the volumes are made
\* there is exactly one volume claim and exactly one volume for each key of
\* the supplied volumeClaimProps, unexpected keys included, and no other.
C12_MountsAreSuppliedVolumes ==
  LET supplied == Keys(Get(cfg, "volumeClaimProps"))
  IN /\ \A d \in Deployments : \A m \in Range(d.spec.volumeMounts) :
          /\ m.volume.t = "string"
          /\ \E name \in shanoirVolumes \cap supplied :
               /\ m.volume.v = name \o "-rv"
               /\ \E i \in Named("Volume", name) : resources[i].spec.claim = Str(name \o "-pvc")
               /\ Named("PersistentVolumeClaim", name) # {}
     /\ Deployments # {} => shanoirVolumes \subseteq supplied
     /\ ~IsUndefined(volumes) =>
          /\ \A k \in supplied :
               /\ Cardinality(Named("PersistentVolumeClaim", k)) = 1
               /\ Cardinality(Named("Volume", k)) = 1
          /\ Cardinality(Of("PersistentVolumeClaim")) = Cardinality(supplied)
          /\ Cardinality(Of("Volume")) = Cardinality(supplied)
          /\ Keys(volumes) = supplied /\ Keys(volumeClaims) = supplied

\* a finished chart from a volumeClaimProps with an unexpected key: it has
\* its claim and its volume, and the microservices mount logs and tmp
C12_Witness ==
  /\ Done
  /\ HasUnexpected("volumeClaimProps")
  /\ \E k \in Keys(Get(cfg, "volumeClaimProps")) \ shanoirVolumes :
       Named("PersistentVolumeClaim", k) # {} /\ Named("Volume", k) # {}
  /\ \E m \in Range(The("Deployment", "studies-deploy").spec.volumeMounts) :
       m.volume = Str("tmp-rv")
  /\ \E m \in Range(The("Deployment", "studies-deploy").spec.volumeMounts) :
       m.volume = Str("logs-rv")

====
